---- MODULE Spec2Model ----
(***************************************************************************)
(* NeuroSync backend: the lexical crisis / anxiety / depression scorer     *)
(* (crisis_detector.py), the plan composer (rag_agent.py) and the          *)
(* /api/transcribe request handler (app.py).                               *)
(*                                                                         *)
(* Texts are TLA+ strings; `in` of Python is the substring test Contains.  *)
(* Scores are kept as integers: risk, anxiety and depression scores in     *)
(* hundredths (the values round(x, 2) returns), intermediate anxiety       *)
(* values in thousandths.                                                  *)
(***************************************************************************)
EXTENDS Integers, Sequences, FiniteSets, TLC

VARIABLES
    text,               \* the text handed to the detector functions
    crisis_result,      \* dict returned by CrisisDetector.detect_crisis, or None
    crisis_bool,        \* bool returned by module-level detect_crisis, or None
    anxiety_result,     \* value returned by detect_anxiety, or None
    depression_result,  \* value returned by detect_depression, or None
    _rag_agent_instance, \* rag_agent.py global: "None" or "agent"
    model_attr,         \* the agent's attribute `model`: "unset", "none" or "client"
    activities,         \* MentalHealthRAGAgent.activities, the flattened knowledge base
    plan_call,          \* the last call a caller made on the agent directly, or NoCall
    kb_file,            \* knowledge_base.json on disk
    env,                \* the environment variables transcribe_audio reads
    pc,                 \* where transcribe_audio stands in the current request
    locals,             \* the local variables of transcribe_audio
    record_status,      \* status of the audio_recordings row of the request
    posts,              \* the webhook POSTs attempted in the current request
    response,           \* the HTTP response of the current request, or None
    served,             \* number of requests received so far
    spotify_credentials, \* SpotifyService: client_id and client_secret are both set
    access_token,       \* SpotifyService.access_token: None or a token
    spotify_call,       \* the last call a caller made on the service directly
    _spotify_service_instance, \* spotify_service.py global: None or a SpotifyService object
    services,           \* access_token of every SpotifyService object the threads built
    token_threads       \* where each concurrent caller of get_access_token stands

detector_vars == <<text, crisis_result, crisis_bool, anxiety_result, depression_result>>

plan_vars == <<_rag_agent_instance, model_attr, activities, plan_call>>

request_vars == <<kb_file, env, pc, locals, record_status, posts, response, served>>

token_vars == <<_spotify_service_instance, services, token_threads>>

spotify_vars == <<spotify_credentials, access_token, spotify_call, token_vars>>

vars == <<text, crisis_result, crisis_bool, anxiety_result, depression_result,
          _rag_agent_instance, model_attr, activities, plan_call,
          kb_file, env, pc, locals, record_status, posts, response, served,
          spotify_credentials, access_token, spotify_call,
          _spotify_service_instance, services, token_threads>>

\* a slot that holds no value yet, or one value
None == <<>>
Some(v) == <<v>>
Val(slot) == slot[1]

-----------------------------------------------------------------------------
(* Bounds of the model *)

\* a text is at most MaxFrags fragments of the vocabulary joined by blanks
MaxFrags == 2

\* the knowledge base flattens to at most MaxActivities activities
MaxActivities == 4

\* _get_fallback_plan is called directly with lists of up to MaxListed activities
MaxListed == 6

\* a request handler works on a knowledge base of at most MaxIndexed activities
MaxIndexed == 2

\* a transcript has at most MaxSegments sentiment segments
MaxSegments == 3

\* at most MaxRequests requests are received
MaxRequests == 2

\* retrieve_relevant_activities is called directly with top_k up to MaxTopK
MaxTopK == 5

\* MaxThreads threads call spotify_service.get_access_token concurrently
MaxThreads == 2

\* the threads make at most MaxCalls calls in all
MaxCalls == 3

-----------------------------------------------------------------------------
(* Python string primitives *)

Min(a, b) == IF a <= b THEN a ELSE b
Max(a, b) == IF a >= b THEN a ELSE b

\* `k in t` for Python strings: k occurs as a contiguous substring of t
Contains(t, k) ==
    \E i \in 1..(Len(t) - Len(k) + 1) : SubSeq(t, i, i + Len(k) - 1) = k

UpperToLower ==
    ("A" :> "a") @@ ("B" :> "b") @@ ("C" :> "c") @@ ("D" :> "d") @@
    ("E" :> "e") @@ ("F" :> "f") @@ ("G" :> "g") @@ ("H" :> "h") @@
    ("I" :> "i") @@ ("J" :> "j") @@ ("K" :> "k") @@ ("L" :> "l") @@
    ("M" :> "m") @@ ("N" :> "n") @@ ("O" :> "o") @@ ("P" :> "p") @@
    ("Q" :> "q") @@ ("R" :> "r") @@ ("S" :> "s") @@ ("T" :> "t") @@
    ("U" :> "u") @@ ("V" :> "v") @@ ("W" :> "w") @@ ("X" :> "x") @@
    ("Y" :> "y") @@ ("Z" :> "z")

LowerChar(c) == IF c \in DOMAIN UpperToLower THEN UpperToLower[c] ELSE c

\* str.lower(): every character mapped, the two halves lowered in turn
RECURSIVE Lower(_)
Lower(t) ==
    IF Len(t) = 0 THEN ""
    ELSE IF Len(t) = 1 THEN LowerChar(t)
    ELSE LET half == Len(t) \div 2
         IN  Lower(SubSeq(t, 1, half)) \o Lower(SubSeq(t, half + 1, Len(t)))

\* [kw for kw in keywords if kw in text_lower]: order of the source list kept
Matches(keywords, text_lower) ==
    SelectSeq(keywords, LAMBDA kw : Contains(text_lower, kw))

-----------------------------------------------------------------------------
(* CrisisDetector.__init__: the keyword lists *)

severe_keywords == <<
    "suicide", "suicidal", "kill myself", "end my life", "take my life",
    "want to die", "better off dead", "end it all", "no point living",
    "not worth living", "no reason to live", "don't want to live",
    "plan to kill", "planning to die", "ready to die" >>

high_risk_keywords == <<
    "harm myself", "hurt myself", "self harm", "cut myself",
    "overdose", "can't go on", "give up on life", "hopeless",
    "no way out", "trapped", "unbearable", "end the pain",
    "can't take it anymore", "nothing matters", "everyone better off without me" >>

moderate_risk_keywords == <<
    "hate myself", "worthless", "failure", "burden",
    "can't cope", "falling apart", "losing control",
    "don't care anymore", "numb", "empty inside",
    "dark thoughts", "intrusive thoughts" >>

anxiety_keywords == <<
    "anxious", "anxiety", "worried", "nervous", "stressed",
    "overwhelmed", "panic", "panicking", "racing thoughts",
    "can't breathe", "heart racing", "hyperventilating",
    "restless", "on edge", "tense", "jittery", "fear",
    "scared", "terrified", "dread", "catastrophizing" >>

depression_keywords == <<
    "depressed", "depression", "sad", "hopeless", "helpless",
    "empty", "numb", "no energy", "exhausted", "tired",
    "can't sleep", "sleeping too much", "no appetite",
    "don't enjoy", "no interest", "isolated", "alone",
    "abandoned", "worthless", "guilty" >>

protective_phrases == <<
    "getting help", "seeing therapist", "talking to doctor",
    "support system", "family support", "friends helping",
    "feeling better", "improving", "making progress",
    "hope", "looking forward", "trying" >>

intensity_modifiers == << "very", "extremely", "really", "so", "unbearably", "constantly" >>

-----------------------------------------------------------------------------
(* CrisisDetector.detect_crisis *)

ACTION_IMMEDIATE == "IMMEDIATE: Contact emergency services (988/911) and notify all emergency contacts"
ACTION_URGENT    == "URGENT: Notify emergency contacts and encourage immediate professional help"
ACTION_MODERATE  == "MODERATE: Encourage reaching out to therapist or support person"
ACTION_MONITOR   == "MONITOR: Provide extra support and wellness resources"
ACTION_STANDARD  == "Standard wellness plan"

\* RiskScore without the cap at 1.0
RiskScore_uncapped(s, h, m, p) ==
    Max(0, s * 40 + h * 25 + m * 10 - p * 15)

\* RiskScore without the floor at 0.0
RiskScore_unfloored(s, h, m, p) ==
    Min(100, s * 40 + h * 25 + m * 10 - p * 15)

\* lines 83-90, in hundredths: the weighted sum, then max(0.0, min(1.0, .))
RiskScore(s, h, m, p) ==
    Max(0, Min(100, s * 40 + h * 25 + m * 10 - p * 15))

\* SeverityBranch with the high-risk test ahead of the severe test
SeverityBranch_high_first(severe_matches, high_matches, moderate_matches, risk_score) ==
    IF Len(high_matches) > 0 \/ risk_score >= 60
        THEN <<"high", TRUE, ACTION_URGENT>>
    ELSE IF Len(severe_matches) > 0
        THEN <<"severe", TRUE, ACTION_IMMEDIATE>>
    ELSE IF Len(moderate_matches) > 0 \/ risk_score >= 30
        THEN <<"moderate", TRUE, ACTION_MODERATE>>
    ELSE IF risk_score > 0
        THEN <<"low", FALSE, ACTION_MONITOR>>
    ELSE <<"none", FALSE, ACTION_STANDARD>>

\* SeverityBranch with the 0.6 comparison the wrong way round
SeverityBranch_flipped(severe_matches, high_matches, moderate_matches, risk_score) ==
    IF Len(severe_matches) > 0
        THEN <<"severe", TRUE, ACTION_IMMEDIATE>>
    ELSE IF Len(high_matches) > 0 \/ risk_score < 60
        THEN <<"high", TRUE, ACTION_URGENT>>
    ELSE IF Len(moderate_matches) > 0 \/ risk_score >= 30
        THEN <<"moderate", TRUE, ACTION_MODERATE>>
    ELSE IF risk_score > 0
        THEN <<"low", FALSE, ACTION_MONITOR>>
    ELSE <<"none", FALSE, ACTION_STANDARD>>

\* SeverityBranch whose moderate branch does not raise crisis_detected
SeverityBranch_moderate_quiet(severe_matches, high_matches, moderate_matches, risk_score) ==
    IF Len(severe_matches) > 0
        THEN <<"severe", TRUE, ACTION_IMMEDIATE>>
    ELSE IF Len(high_matches) > 0 \/ risk_score >= 60
        THEN <<"high", TRUE, ACTION_URGENT>>
    ELSE IF Len(moderate_matches) > 0 \/ risk_score >= 30
        THEN <<"moderate", FALSE, ACTION_MODERATE>>
    ELSE IF risk_score > 0
        THEN <<"low", FALSE, ACTION_MONITOR>>
    ELSE <<"none", FALSE, ACTION_STANDARD>>

\* lines 95-114: the if / elif chain, as <<severity, crisis_detected, action>>
SeverityBranch(severe_matches, high_matches, moderate_matches, risk_score) ==
    IF Len(severe_matches) > 0
        THEN <<"severe", TRUE, ACTION_IMMEDIATE>>
    ELSE IF Len(high_matches) > 0 \/ risk_score >= 60
        THEN <<"high", TRUE, ACTION_URGENT>>
    ELSE IF Len(moderate_matches) > 0 \/ risk_score >= 30
        THEN <<"moderate", TRUE, ACTION_MODERATE>>
    ELSE IF risk_score > 0
        THEN <<"low", FALSE, ACTION_MONITOR>>
    ELSE <<"none", FALSE, ACTION_STANDARD>>

\* all_matches without the slice
FirstN_untruncated(seq, n) == seq

\* all_matches[:5]
FirstN(seq, n) == SubSeq(seq, 1, Min(n, Len(seq)))

CrisisDetector_detect_crisis(t) ==
    LET text_lower         == Lower(t)
        severe_matches     == Matches(severe_keywords, text_lower)
        high_matches       == Matches(high_risk_keywords, text_lower)
        moderate_matches   == Matches(moderate_risk_keywords, text_lower)
        protective_matches == Matches(protective_phrases, text_lower)
        risk_score         == RiskScore(Len(severe_matches), Len(high_matches),
                                        Len(moderate_matches), Len(protective_matches))
        all_matches        == severe_matches \o high_matches \o moderate_matches
        branch             == SeverityBranch(severe_matches, high_matches,
                                             moderate_matches, risk_score)
    IN  [ crisis_detected    |-> branch[2],
          severity           |-> branch[1],
          risk_score         |-> risk_score,
          matched_keywords   |-> FirstN(all_matches, 5),
          recommended_action |-> branch[3],
          protective_factors |-> Len(protective_matches) > 0 ]

-----------------------------------------------------------------------------
(* CrisisDetector.detect_anxiety, CrisisDetector.detect_depression *)

\* thousandths x whose binary double lies above the decimal tie x/1000, so
\* that round(x/1000, 2) goes up; the other ties (exact in binary, or below
\* the tie) go to the even / lower hundredth
TiesRoundedUp == {225, 325, 375}

\* round(x, 2) of a value given in thousandths, result in hundredths
Round2(x) ==
    IF x % 10 = 5
        THEN (IF x \in TiesRoundedUp THEN (x \div 10) + 1 ELSE x \div 10)
        ELSE (x + 5) \div 10

\* detect_anxiety without the 0.8 cap on the keyword part
detect_anxiety_uncapped(t) ==
    LET text_lower     == Lower(t)
        matches        == Len(Matches(anxiety_keywords, text_lower))
        modifier_count == Len(Matches(intensity_modifiers, text_lower))
        base_score     == matches * 125
        modifier_boost == Min(modifier_count * 100, 200)
        anxiety_score  == Min(base_score + modifier_boost, 1000)
    IN  Round2(anxiety_score)

CrisisDetector_detect_anxiety(t) ==
    LET text_lower     == Lower(t)
        matches        == Len(Matches(anxiety_keywords, text_lower))
        modifier_count == Len(Matches(intensity_modifiers, text_lower))
        base_score     == Min(matches * 125, 800)
        modifier_boost == Min(modifier_count * 100, 200)
        anxiety_score  == Min(base_score + modifier_boost, 1000)
    IN  Round2(anxiety_score)

CrisisDetector_detect_depression(t) ==
    LET text_lower       == Lower(t)
        matches          == Len(Matches(depression_keywords, text_lower))
        depression_score == Min(matches * 100, 1000)
    IN  Round2(depression_score)

-----------------------------------------------------------------------------
(* Input texts *)

\* every high-risk keyword as a text of its own, given as it is
HighRiskAlone == { high_risk_keywords[i] : i \in 1..Len(high_risk_keywords) }

\* fragments about crisis: severe, high-risk, moderate-risk and protective
\* entries, upper case, and a fragment that matches nothing
CrisisVocabulary == {
    "hello",
    "I want to KILL MYSELF",
    "suicidal, ready to die",
    "hopeless",
    "trapped",
    "worthless failure burden",
    "numb, falling apart, losing control",
    "a burden, trapped, I want to die",
    "but I am getting help" }

\* fragments about mood: anxiety and depression indicators and intensity
\* modifiers; the last two hold every anxiety / every depression keyword
MoodVocabulary == {
    "so very anxious",
    "really worried and scared",
    "nervous, stressed, tense, jittery, restless",
    "helpless isolated abandoned",
    "sad, tired, alone, guilty, exhausted, empty and depressed",
    "anxious anxiety worried nervous stressed overwhelmed panicking racing thoughts can't breathe heart racing hyperventilating restless on edge tense jittery fear scared terrified dread catastrophizing",
    "depressed depression sad hopeless helpless empty numb no energy exhausted tired can't sleep sleeping too much no appetite don't enjoy no interest isolated alone abandoned worthless guilty" }

RECURSIVE Join(_)
Join(frags) ==
    IF Len(frags) = 0 THEN ""
    ELSE IF Len(frags) = 1 THEN frags[1]
    ELSE frags[1] \o " " \o Join(Tail(frags))

\* up to MaxFrags fragments of one vocabulary, joined by blanks
TextsOver(vocabulary) ==
    { Join(fs) : fs \in UNION { [1..n -> vocabulary] : n \in 0..MaxFrags } }

Texts == TextsOver(CrisisVocabulary) \cup TextsOver(MoodVocabulary) \cup HighRiskAlone

\* module-level convenience functions over the global crisis_detector
detect_crisis(t) == CrisisDetector_detect_crisis(t).crisis_detected
detect_anxiety(t) == CrisisDetector_detect_anxiety(t)
detect_depression(t) == CrisisDetector_detect_depression(t)

\* the detector functions tabulated over the input texts (each is a pure
\* function of the text: the tables are evaluated once)
crisis_of      == [t \in Texts |-> CrisisDetector_detect_crisis(t)]
crisis_bool_of == [t \in Texts |-> detect_crisis(t)]
anxiety_of     == [t \in Texts |-> detect_anxiety(t)]
depression_of  == [t \in Texts |-> detect_depression(t)]

-----------------------------------------------------------------------------
(* rag_agent.py: values *)

\* a JSON value that may sit in a list-valued field of a plan
JAbsent == [ type |-> "absent", items |-> <<>> ]
JNull == [ type |-> "null", items |-> <<>> ]
JStr(str) == [ type |-> "str", items |-> <<str>> ]
JList(xs) == [ type |-> "list", items |-> xs ]

\* the music_recommendation field of a plan
NoMusic == [ type |-> "absent", needed |-> FALSE, description |-> "", spotify_playlist_url |-> "" ]
Music(needed, description) ==
    [ type |-> "dict", needed |-> needed, description |-> description,
      spotify_playlist_url |-> "" ]

\* a parsed JSON document; a dict carries the three fields the code reads
JDict(immediate_actions, acts, music_recommendation) ==
    [ type |-> "dict", immediate_actions |-> immediate_actions, activities |-> acts,
      music_recommendation |-> music_recommendation ]
JOther(type) ==
    [ type |-> type, immediate_actions |-> JAbsent, activities |-> JAbsent,
      music_recommendation |-> NoMusic ]
NoPlan == JOther("none")

\* how a call ended
Returned(plan) == [ kind |-> "returned", plan |-> plan, error |-> "" ]
Raised(error) == [ kind |-> "raised", plan |-> NoPlan, error |-> error ]

-----------------------------------------------------------------------------
(* MentalHealthRAGAgent.__init__: the flattened knowledge base *)

\* an activity record of the knowledge base; a key may be missing (None)
Activity(name, description, steps, duration_minutes) ==
    [ name |-> name, description |-> description, steps |-> steps,
      duration_minutes |-> duration_minutes ]

\* the i-th activity of the knowledge base: the four shapes the renderer
\* tells apart, in turn
ActivityAt(i) ==
    CASE i % 4 = 1 -> Activity(Some("Breathing " \o ToString(i)),
                               Some("Breathe in a square rhythm"),
                               Some(<<"Inhale", "Hold", "Exhale">>), Some(4))
      [] i % 4 = 2 -> Activity(Some("Walk " \o ToString(i)), None,
                               Some(<<"Put on shoes", "Go outside", "Walk">>), Some(10))
      [] i % 4 = 3 -> Activity(Some("Journaling " \o ToString(i)), Some(""),
                               Some(<<>>), None)
      [] OTHER     -> Activity(None, Some("Stretch your neck"), None, Some(3))

\* the first n activities
KnowledgeBase(n) == [ i \in 1..n |-> ActivityAt(i) ]

-----------------------------------------------------------------------------
(* MentalHealthRAGAgent.retrieve_relevant_activities *)

\* cosine similarities take one of these levels
SimLevels == {0, 1}

\* np.argsort(similarities): the indices in ascending order of similarity;
\* the default sort kind is not stable, so equal similarities come in any order
ArgSorts(similarities) ==
    LET n == Len(similarities)
    IN  { order \in [1..n -> 1..n] :
            /\ \A i, j \in 1..n : i # j => order[i] # order[j]
            /\ \A i, j \in 1..n : i < j => similarities[order[i]] <= similarities[order[j]] }

\* a[-k:]  (a[-0:] is the whole list)
LastK(seq, k) ==
    IF k = 0 \/ k >= Len(seq) THEN seq ELSE SubSeq(seq, Len(seq) - k + 1, Len(seq))

\* a[::-1]
Reverse(seq) == [ i \in 1..Len(seq) |-> seq[Len(seq) + 1 - i] ]

\* lines 57-60, given the argsort of the similarities
retrieve_relevant_activities(acts, order, top_k) ==
    LET top_indices == Reverse(LastK(order, top_k))
    IN  [ i \in 1..Len(top_indices) |-> acts[top_indices[i]] ]

-----------------------------------------------------------------------------
(* MentalHealthRAGAgent._get_fallback_plan *)

CRISIS_ACTIONS == <<
    "Take slow, deep breaths. Inhale for 4 counts, hold for 4, exhale for 4.",
    "If you're feeling overwhelmed, reach out to someone you trust right now.",
    "Remember: This feeling will pass. You've gotten through difficult moments before." >>

LOW_MOOD_ACTIONS == <<
    "Start with a simple breathing exercise to calm your nervous system.",
    "Do one small, manageable thing right now - even just washing your face.",
    "Be gentle with yourself. It's okay to not be okay sometimes." >>

MID_MOOD_ACTIONS == <<
    "Take a moment to notice your breathing and relax your shoulders.",
    "Consider doing a quick 5-minute activity to shift your energy.",
    "Stay hydrated and make sure you've eaten something today." >>

POSITIVE_ACTIONS == <<
    "You're doing well! Keep this positive momentum going.",
    "Consider an activity that brings you joy or helps you relax.",
    "Take a moment to appreciate how you're feeling right now." >>

GENERIC_ACTIVITIES == <<
    "Take 5 slow, deep breaths",
    "Drink a glass of water",
    "Step outside for fresh air if possible",
    "Write down one thing you're grateful for" >>

MUSIC_CALMING   == "Calming, slow-tempo music can help reduce anxiety and promote relaxation."
MUSIC_UPLIFTING == "Gentle, uplifting music can help improve your mood and provide comfort."
MUSIC_DEFAULT   == "Music that matches your current mood can be therapeutic and grounding."

\* dict.get(key, default)
Get(slot, default) == IF slot = None THEN default ELSE Val(slot)

\* ', '.join(steps[:2])
JoinSteps(steps) ==
    IF Len(steps) = 1 THEN steps[1] ELSE steps[1] \o ", " \o steps[2]

\* lines 221-232 with the steps preferred to the description
RenderActivity_steps_first(act) ==
    LET name     == Get(act.name, "Activity")
        desc     == Get(act.description, "")
        duration == Get(act.duration_minutes, 5)
        steps    == Get(act.steps, <<>>)
        suffix   == " (" \o ToString(duration) \o " minutes)"
    IN  IF Len(steps) > 0 THEN name \o ": " \o JoinSteps(steps) \o suffix
        ELSE IF desc # "" THEN name \o ": " \o desc \o suffix
        ELSE name \o suffix

\* lines 221-232: one activity as a string
RenderActivity(act) ==
    LET name     == Get(act.name, "Activity")
        desc     == Get(act.description, "")
        duration == Get(act.duration_minutes, 5)
        steps    == Get(act.steps, <<>>)
        suffix   == " (" \o ToString(duration) \o " minutes)"
    IN  IF desc # "" THEN name \o ": " \o desc \o suffix
        ELSE IF Len(steps) > 0 THEN name \o ": " \o JoinSteps(steps) \o suffix
        ELSE name \o suffix

\* lines 193-216 with crisis_flag tested after the mood bands
ImmediateActions_mood_first(mood_score, crisis_flag) ==
    IF mood_score < 200 THEN CRISIS_ACTIONS
    ELSE IF mood_score < 400 THEN LOW_MOOD_ACTIONS
    ELSE IF mood_score < 600 THEN MID_MOOD_ACTIONS
    ELSE IF crisis_flag THEN CRISIS_ACTIONS
    ELSE POSITIVE_ACTIONS

\* lines 193-216; mood_score in thousandths
ImmediateActions(mood_score, crisis_flag) ==
    IF crisis_flag \/ mood_score < 200 THEN CRISIS_ACTIONS
    ELSE IF mood_score < 400 THEN LOW_MOOD_ACTIONS
    ELSE IF mood_score < 600 THEN MID_MOOD_ACTIONS
    ELSE POSITIVE_ACTIONS

\* lines 235-240 with the mood tested before the anxiety
MusicDescription_mood_first(mood_score, anxiety_score) ==
    IF mood_score < 400 THEN MUSIC_UPLIFTING
    ELSE IF anxiety_score > 60 THEN MUSIC_CALMING
    ELSE MUSIC_DEFAULT

\* lines 235-240; anxiety_score in hundredths, mood_score in thousandths
MusicDescription(mood_score, anxiety_score) ==
    IF anxiety_score > 60 THEN MUSIC_CALMING
    ELSE IF mood_score < 400 THEN MUSIC_UPLIFTING
    ELSE MUSIC_DEFAULT

_get_fallback_plan(mood_score, anxiety_score, crisis_flag, acts) ==
    LET immediate_actions     == ImmediateActions(mood_score, crisis_flag)
        first4                == FirstN(acts, 4)
        activity_descriptions == [ i \in 1..Len(first4) |-> RenderActivity(first4[i]) ]
        music_desc            == MusicDescription(mood_score, anxiety_score)
    IN  JDict(JList(immediate_actions),
              JList(IF Len(activity_descriptions) > 0 THEN activity_descriptions
                    ELSE GENERIC_ACTIVITIES),
              Music(TRUE, music_desc))

-----------------------------------------------------------------------------
(* MentalHealthRAGAgent._generate_with_llm *)

\* stands for the backtick (U+0060), which a TLA+ string cannot hold
BACKTICK == "~"
FENCE == BACKTICK \o BACKTICK \o BACKTICK
FENCE_JSON == FENCE \o "json"

Whitespace == {" ", "\n", "\t", "\r"}

RECURSIVE LStrip(_)
LStrip(t) ==
    IF Len(t) > 0 /\ SubSeq(t, 1, 1) \in Whitespace
        THEN LStrip(SubSeq(t, 2, Len(t))) ELSE t

RECURSIVE RStrip(_)
RStrip(t) ==
    IF Len(t) > 0 /\ SubSeq(t, Len(t), Len(t)) \in Whitespace
        THEN RStrip(SubSeq(t, 1, Len(t) - 1)) ELSE t

\* str.strip()
Strip(t) == RStrip(LStrip(t))

StartsWith(t, prefix) == Len(t) >= Len(prefix) /\ SubSeq(t, 1, Len(prefix)) = prefix
EndsWith(t, suffix) ==
    Len(t) >= Len(suffix) /\ SubSeq(t, Len(t) - Len(suffix) + 1, Len(t)) = suffix

\* lines 155-165: strip, drop the markdown fences, strip
CleanResponse(raw) ==
    LET t0 == Strip(raw)
        t1 == IF StartsWith(t0, FENCE_JSON) THEN SubSeq(t0, 8, Len(t0)) ELSE t0
        t2 == IF StartsWith(t1, FENCE) THEN SubSeq(t1, 4, Len(t1)) ELSE t1
        t3 == IF EndsWith(t2, FENCE) THEN SubSeq(t2, 1, Len(t2) - 3) ELSE t2
    IN  Strip(t3)

\* json.loads on the documents a reply may carry: each document with the
\* value it parses to; any other text raises JSONDecodeError
json_documents ==
    ( "{\"immediate_actions\": [\"a1\", \"a2\", \"a3\"], \"activities\": [\"x1\", \"x2\", \"x3\", \"x4\"], \"music_recommendation\": {\"needed\": true, \"description\": \"calm\"}}"
        :> JDict(JList(<<"a1", "a2", "a3">>), JList(<<"x1", "x2", "x3", "x4">>), Music(TRUE, "calm")) ) @@
    ( "{\"immediate_actions\": [\"a1\", \"a2\", \"a3\"], \"activities\": [\"x1\", \"x2\", \"x3\"]}"
        :> JDict(JList(<<"a1", "a2", "a3">>), JList(<<"x1", "x2", "x3">>), NoMusic) ) @@
    ( "{\"immediate_actions\": [], \"activities\": []}"
        :> JDict(JList(<<>>), JList(<<>>), NoMusic) ) @@
    ( "{\"immediate_actions\": [\"a1\", \"a2\"], \"activities\": [\"x1\", \"x2\", \"x3\", \"x4\", \"x5\"]}"
        :> JDict(JList(<<"a1", "a2">>), JList(<<"x1", "x2", "x3", "x4", "x5">>), NoMusic) ) @@
    ( "{\"activities\": [\"x1\"]}"
        :> JDict(JAbsent, JList(<<"x1">>), NoMusic) ) @@
    ( "{\"immediate_actions\": [\"a1\", \"a2\", \"a3\"]}"
        :> JDict(JList(<<"a1", "a2", "a3">>), JAbsent, NoMusic) ) @@
    ( "{\"immediate_actions\": \"breathe\", \"activities\": [\"x1\"]}"
        :> JDict(JStr("breathe"), JList(<<"x1">>), NoMusic) ) @@
    ( "{\"immediate_actions\": [\"a1\", \"a2\", \"a3\"], \"activities\": null}"
        :> JDict(JList(<<"a1", "a2", "a3">>), JNull, NoMusic) ) @@
    ( "{}" :> JDict(JAbsent, JAbsent, NoMusic) ) @@
    ( "[\"a1\"]" :> JOther("list") ) @@
    ( "null" :> JOther("null") )

\* texts that are not JSON
NotJson == { "", "I'm sorry, I can't help with that." }

\* what the model call gives: it raises, or it answers with a text (a
\* document, bare or wrapped in fences, whitespace or a preamble)
Wrappings == {
    <<"", "">>,
    <<FENCE_JSON \o "\n", "\n" \o FENCE>>,
    <<FENCE \o "\n", "\n" \o FENCE \o "\n">>,
    <<"  ", "\n">>,
    <<"Here is your plan:\n" \o FENCE_JSON \o "\n", "\n" \o FENCE>> }

LLMReplies ==
    { [ kind |-> "raises", text |-> "" ] } \cup
    { [ kind |-> "text", text |-> w[1] \o doc \o w[2] ] :
        w \in Wrappings, doc \in (DOMAIN json_documents) \cup NotJson }

NoReply == [ kind |-> "none", text |-> "" ]

\* lines 146-184; every exception is re-raised
_generate_with_llm(reply) ==
    IF reply.kind = "raises" THEN Raised("Exception")
    ELSE LET response_text == CleanResponse(reply.text)
         IN  IF response_text \notin DOMAIN json_documents
                 THEN Raised("JSONDecodeError")
             ELSE LET plan == json_documents[response_text]
                  IN  IF plan.type # "dict" THEN Raised("AttributeError")
                      ELSE IF plan.immediate_actions.type # "list" THEN Raised("ValueError")
                      ELSE IF plan.activities.type # "list" THEN Raised("ValueError")
                      ELSE Returned(plan)

\* _generate_with_llm tabulated over the replies (evaluated once)
llm_outcome_of == [ reply \in LLMReplies |-> _generate_with_llm(reply) ]

-----------------------------------------------------------------------------
(* MentalHealthRAGAgent.generate_plan *)

\* generate_plan without the except clause of lines 104-109
generate_plan_no_except(attr, mood_score, anxiety_score, crisis_flag, relevant_activities, reply) ==
    IF attr = "unset" THEN Raised("AttributeError")
    ELSE IF attr = "client" THEN llm_outcome_of[reply]
    ELSE Returned(_get_fallback_plan(mood_score, anxiety_score,
                                     crisis_flag, relevant_activities))

\* lines 92-114, given the retrieved activities and the model's reply
generate_plan(attr, mood_score, anxiety_score, crisis_flag, relevant_activities, reply) ==
    IF attr = "unset" THEN Raised("AttributeError")
    ELSE IF attr = "client"
        THEN LET llm == llm_outcome_of[reply]
             IN  IF llm.kind = "returned" THEN llm
                 ELSE Returned(_get_fallback_plan(mood_score, anxiety_score,
                                                  crisis_flag, relevant_activities))
    ELSE Returned(_get_fallback_plan(mood_score, anxiety_score,
                                     crisis_flag, relevant_activities))

\* the record of a call of the plan composer
\* inputs of generate_plan: mood_score in thousandths, anxiety_score in hundredths
MoodScores == {100, 200, 400, 600}
AnxietyScores == {60, 75}

NoCall ==
    [ fn |-> "none", mood_score |-> 0, anxiety_score |-> 0, crisis_flag |-> FALSE,
      relevant_activities |-> <<>>, reply |-> NoReply, outcome |-> Raised("") ]

-----------------------------------------------------------------------------
(* spotify_service.py: SpotifyService.get_playlist *)

FOUND_PLAYLIST    == "https://open.spotify.com/playlist/found"
FALLBACK_CALMING  == "https://open.spotify.com/playlist/37i9dQZF1DWZqd5JICZI0u"
FALLBACK_UPBEAT   == "https://open.spotify.com/playlist/37i9dQZF1DX3rxVfCUTxSu"

\* mood_score in thousandths
_get_fallback_playlist(mood_score) ==
    IF mood_score < 500 THEN FALLBACK_CALMING ELSE FALLBACK_UPBEAT

\* lines 44-85, given whether get_access_token gave a token and how the
\* search went; the result is None or a URL
get_playlist(token, search, mood_score) ==
    IF token = "none" THEN None
    ELSE IF search = "found" THEN Some(FOUND_PLAYLIST)
    ELSE Some(_get_fallback_playlist(mood_score))

\* the tokens the auth endpoint hands out
Tokens == {"token-a"}

\* the auth request raises, answers with a status other than 200, or
\* answers 200 with a token
AuthOutcomes == {"raises", "status"} \cup Tokens

\* lines 12-42: the token returned and the token cached afterwards
get_access_token(cached, credentials, auth) ==
    IF cached # None THEN [ token |-> cached, access_token |-> cached ]
    ELSE IF ~credentials THEN [ token |-> None, access_token |-> None ]
    ELSE IF auth \in Tokens THEN [ token |-> Some(auth), access_token |-> Some(auth) ]
    ELSE [ token |-> None, access_token |-> None ]

\* what get_playlist / get_recommendations takes of the token
TokenArg(token) == IF token = None THEN "none" ELSE "token"

\* the API request finds something, answers 200 with nothing in it,
\* answers with a status other than 200, or raises
ApiOutcomes == {"found", "empty", "status", "raises"}

FOUND_TRACKS == <<"found track 1", "found track 2">>
FALLBACK_TRACKS == <<"Weightless", "Clair de Lune", "River Flows In You">>

\* lines 145-170
_get_fallback_tracks(mood_score) == FALLBACK_TRACKS

\* lines 97-143: the list returned
get_recommendations(token, outcome, mood_score) ==
    IF token = "none" THEN _get_fallback_tracks(mood_score)
    ELSE IF outcome = "found" THEN FOUND_TRACKS
    ELSE IF outcome = "empty" THEN <<>>
    ELSE _get_fallback_tracks(mood_score)

NoSpotifyCall == [ fn |-> "none" ]

\* the threads, and the SpotifyService objects named by the thread that
\* built them
Threads == 1..MaxThreads

\* tokens the accounts service hands out; every 200 response may carry another
IssuedTokens == {"token-a", "token-b"}

\* what the POST of lines 27-32 can give: an exception, a status other than
\* 200, or status 200 with a token
NoResponse == [ status_code |-> 0, access_token |-> "", raised |-> FALSE ]
AuthResponses ==
    { [ status_code |-> 0, access_token |-> "", raised |-> TRUE ],
      [ status_code |-> 401, access_token |-> "", raised |-> FALSE ] }
    \cup { [ status_code |-> 200, access_token |-> tok, raised |-> FALSE ] : tok \in IssuedTokens }

\* a thread outside of any call
IdleThread ==
    [ pc |-> "idle", service |-> 0, response |-> NoResponse, result |-> None,
      requests |-> 0, calls |-> 0 ]

\* no SpotifyService object built, no thread in a call
TokenIdle ==
    /\ _spotify_service_instance = None
    /\ services = [ s \in Threads |-> None ]
    /\ token_threads = [ t \in Threads |-> IdleThread ]

\* no call made on the service, no credentials
SpotifyIdle ==
    /\ spotify_credentials = FALSE
    /\ access_token = None
    /\ spotify_call = NoSpotifyCall
    /\ TokenIdle

-----------------------------------------------------------------------------
(* app.py: values of transcribe_audio *)

USER_ID == "user-1"
USER_PHONE == "+10000000001"

\* a row of emergency_contacts
CONTACT == [ whatsapp_number |-> "+10000000002", name |-> "Sam", relationship |-> "friend" ]

CRISIS_WEBHOOK_URL == "https://n8n.example/crisis"
WELLNESS_WEBHOOK_URL == "https://n8n.example/wellness"

NO_SPEECH == "[No speech detected]"

\* what the transcription provider may hear
Spoken == {
    "",
    "hello",
    "I want to KILL MYSELF",
    "trapped",
    "so very anxious",
    "anxious anxiety worried nervous stressed overwhelmed panicking racing thoughts can't breathe heart racing hyperventilating restless on edge tense jittery fear scared terrified dread catastrophizing" }

\* lines 134-135 tabulated over the transcripts (evaluated once)
scores_of ==
    [ t \in (Spoken \ {""}) \cup {NO_SPEECH} |->
        [ anxiety_score |-> detect_anxiety(t), crisis_flag |-> detect_crisis(t) ] ]

\* lines 117-131 with the share taken among the POSITIVE and NEGATIVE
\* segments only
MoodNumeric_of_matched(pos, neg, segments) ==
    IF segments > 0
        THEN IF pos > neg THEN 600 + (pos * 300) \div (pos + neg)
             ELSE IF neg > pos THEN 400 - (neg * 300) \div (pos + neg)
             ELSE 500
    ELSE 500

\* lines 117-131: the mood in thousandths, from the numbers of POSITIVE and
\* NEGATIVE segments among the sentiment segments
MoodNumeric(pos, neg, segments) ==
    IF segments > 0
        THEN IF pos > neg THEN 600 + (pos * 300) \div segments
             ELSE IF neg > pos THEN 400 - (neg * 300) \div segments
             ELSE 500
    ELSE 500

\* the knowledge base file
KBMissing == [ state |-> "missing", activities |-> <<>> ]
KBMalformed == [ state |-> "malformed", activities |-> <<>> ]
KBFile(n) == [ state |-> "ok", activities |-> KnowledgeBase(n) ]

\* no transcript object held
NoTranscript == [ text |-> "", pos |-> 0, neg |-> 0, segments |-> 0 ]

NoLocals ==
    [ emergency_contacts |-> <<>>, transcript |-> NoTranscript,
      transcript_text |-> "", mood_numeric |-> 0,
      anxiety_score |-> 0, crisis_flag |-> FALSE, wellness_plan |-> NoPlan ]

\* lines 177-185: the JSON body of the crisis webhook POST
CrisisPayload(l) ==
    [ user_id |-> USER_ID, user_phone |-> USER_PHONE,
      emergency_contacts |-> l.emergency_contacts, transcript |-> l.transcript_text,
      crisis_flag |-> TRUE, mood_score |-> l.mood_numeric,
      anxiety_score |-> l.anxiety_score ]

\* lines 194-202: the JSON body of the wellness webhook POST
WellnessPayload(l) ==
    [ user_id |-> USER_ID, user_phone |-> USER_PHONE, transcript |-> l.transcript_text,
      mood_score |-> l.mood_numeric, anxiety_score |-> l.anxiety_score,
      crisis_flag |-> l.crisis_flag, wellness_plan |-> l.wellness_plan ]

\* a requests.post that was attempted; it went through or raised
Post(url, json, delivered) == [ url |-> url, json |-> json, delivered |-> delivered ]

\* lines 207-214: the success object
SuccessBody(l) ==
    [ success |-> TRUE, transcript |-> l.transcript_text, mood_score |-> l.mood_numeric,
      anxiety_score |-> l.anxiety_score, crisis_flag |-> l.crisis_flag,
      wellness_plan |-> l.wellness_plan ]

NoBody == SuccessBody(NoLocals)

Ok(body) == [ status_code |-> 200, detail |-> "", body |-> body ]
HTTPException(status_code, detail) ==
    [ status_code |-> status_code, detail |-> detail, body |-> NoBody ]

\* lines 155-157: the playlist URL put into the plan
WithPlaylist(plan, playlist_url) ==
    LET music == plan.music_recommendation
    IN  [ plan EXCEPT !.music_recommendation =
            IF music.type = "absent"
                THEN [ type |-> "dict_url_only", needed |-> FALSE, description |-> "",
                       spotify_playlist_url |-> playlist_url ]
            ELSE [ music EXCEPT !.spotify_playlist_url = playlist_url ] ]

\* no request being handled, a usable knowledge base, no webhook configured
RequestIdle ==
    /\ kb_file = KBFile(1)
    /\ env = [ N8N_CRISIS_WEBHOOK_URL |-> None, N8N_WEBHOOK_URL |-> None ]
    /\ pc = "idle"
    /\ locals = NoLocals
    /\ record_status = "none"
    /\ posts = <<>>
    /\ response = None
    /\ served = 0

-----------------------------------------------------------------------------
(* The detector functions called on one text *)

\* no detector function called
DetectorIdle ==
    /\ text = ""
    /\ crisis_result = None
    /\ crisis_bool = None
    /\ anxiety_result = None
    /\ depression_result = None

\* no agent call made, the agent as its constructor leaves it
PlanIdle ==
    /\ _rag_agent_instance = "agent"
    /\ model_attr = "unset"
    /\ activities = KnowledgeBase(1)
    /\ plan_call = NoCall

DetectorInit ==
    /\ text \in Texts
    /\ crisis_result = None
    /\ crisis_bool = None
    /\ anxiety_result = None
    /\ depression_result = None
    /\ PlanIdle
    /\ RequestIdle
    /\ SpotifyIdle

CallDetectCrisis ==
    /\ crisis_result = None
    /\ crisis_result' = Some(crisis_of[text])
    /\ UNCHANGED <<text, crisis_bool, anxiety_result, depression_result>>
    /\ UNCHANGED <<plan_vars, request_vars, spotify_vars>>

\* module-level detect_crisis(text): result['crisis_detected'] of the global instance
CallDetectCrisisBool ==
    /\ crisis_bool = None
    /\ crisis_bool' = Some(crisis_bool_of[text])
    /\ UNCHANGED <<text, crisis_result, anxiety_result, depression_result>>
    /\ UNCHANGED <<plan_vars, request_vars, spotify_vars>>

CallDetectAnxiety ==
    /\ anxiety_result = None
    /\ anxiety_result' = Some(anxiety_of[text])
    /\ UNCHANGED <<text, crisis_result, crisis_bool, depression_result>>
    /\ UNCHANGED <<plan_vars, request_vars, spotify_vars>>

CallDetectDepression ==
    /\ depression_result = None
    /\ depression_result' = Some(depression_of[text])
    /\ UNCHANGED <<text, crisis_result, crisis_bool, anxiety_result>>
    /\ UNCHANGED <<plan_vars, request_vars, spotify_vars>>

DetectorNext ==
    \/ CallDetectCrisis
    \/ CallDetectCrisisBool
    \/ CallDetectAnxiety
    \/ CallDetectDepression

SpecDetector == DetectorInit /\ [][DetectorNext]_vars

-----------------------------------------------------------------------------
(* The plan composer called on a constructed agent *)

PlanInit ==
    /\ DetectorIdle
    /\ _rag_agent_instance = "agent"
    /\ model_attr = "unset"
    /\ \E n \in 1..MaxActivities : activities = KnowledgeBase(n)
    /\ plan_call = NoCall
    /\ RequestIdle
    /\ SpotifyIdle

\* a generative-model client (or a falsy placeholder) is put on the agent
AttachModel ==
    /\ _rag_agent_instance = "agent"
    /\ plan_call = NoCall
    /\ model_attr = "unset"
    /\ model_attr' \in {"none", "client"}
    /\ UNCHANGED <<_rag_agent_instance, activities, plan_call>>
    /\ UNCHANGED <<detector_vars, request_vars, spotify_vars>>

CallGeneratePlan ==
    /\ plan_call = NoCall
    /\ \E similarities \in [1..Len(activities) -> SimLevels] :
       \E order \in ArgSorts(similarities) :
       \E mood_score \in MoodScores, anxiety_score \in AnxietyScores, crisis_flag \in BOOLEAN :
       \E reply \in (IF model_attr = "client" THEN LLMReplies ELSE {NoReply}) :
          LET relevant_activities == retrieve_relevant_activities(activities, order, 8)
          IN  plan_call' =
                [ fn |-> "generate_plan", mood_score |-> mood_score,
                  anxiety_score |-> anxiety_score, crisis_flag |-> crisis_flag,
                  relevant_activities |-> relevant_activities, reply |-> reply,
                  outcome |-> generate_plan(model_attr, mood_score, anxiety_score,
                                            crisis_flag, relevant_activities, reply) ]
    /\ UNCHANGED <<_rag_agent_instance, model_attr, activities>>
    /\ UNCHANGED <<detector_vars, request_vars, spotify_vars>>

CallFallbackPlan ==
    /\ plan_call = NoCall
    /\ \E n \in 0..MaxListed :
       \E mood_score \in MoodScores, anxiety_score \in AnxietyScores, crisis_flag \in BOOLEAN :
          plan_call' =
            [ fn |-> "_get_fallback_plan", mood_score |-> mood_score,
              anxiety_score |-> anxiety_score, crisis_flag |-> crisis_flag,
              relevant_activities |-> KnowledgeBase(n), reply |-> NoReply,
              outcome |-> Returned(_get_fallback_plan(mood_score, anxiety_score,
                                                      crisis_flag, KnowledgeBase(n))) ]
    /\ UNCHANGED <<_rag_agent_instance, model_attr, activities>>
    /\ UNCHANGED <<detector_vars, request_vars, spotify_vars>>

\* a caller calls retrieve_relevant_activities; the record keeps the
\* similarities of line 54 and the top_indices of line 57
CallRetrieve ==
    /\ plan_call = NoCall
    /\ \E similarities \in [1..Len(activities) -> SimLevels] :
       \E order \in ArgSorts(similarities) :
       \E top_k \in 0..MaxTopK :
          plan_call' =
            [ fn |-> "retrieve_relevant_activities", similarities |-> similarities,
              top_k |-> top_k, top_indices |-> Reverse(LastK(order, top_k)),
              relevant_activities |->
                  retrieve_relevant_activities(activities, order, top_k) ]
    /\ UNCHANGED <<_rag_agent_instance, model_attr, activities>>
    /\ UNCHANGED <<detector_vars, request_vars, spotify_vars>>

PlanNext ==
    \/ AttachModel
    \/ CallGeneratePlan
    \/ CallFallbackPlan
    \/ CallRetrieve

SpecPlan == PlanInit /\ [][PlanNext]_vars

-----------------------------------------------------------------------------
(* POST /api/transcribe: transcribe_audio, one step per external call *)

Init ==
    /\ DetectorIdle
    /\ _rag_agent_instance = "None"
    /\ model_attr = "unset"
    /\ activities = <<>>
    /\ plan_call = NoCall
    /\ kb_file \in {KBMissing, KBMalformed} \cup { KBFile(n) : n \in 1..MaxIndexed }
    /\ env \in [ N8N_CRISIS_WEBHOOK_URL : {None, Some(CRISIS_WEBHOOK_URL)},
                 N8N_WEBHOOK_URL : {None, Some(WELLNESS_WEBHOOK_URL)} ]
    /\ pc = "contacts"
    /\ locals = NoLocals
    /\ record_status = "none"
    /\ posts = <<>>
    /\ response = None
    /\ served = 1
    /\ spotify_credentials \in BOOLEAN
    /\ access_token = None
    /\ spotify_call = NoSpotifyCall
    /\ TokenIdle

\* lines 216-220: an exception other than HTTPException ends the request
\* with HTTP 500
Fail500(detail) ==
    /\ response' = Some(HTTPException(500, detail))
    /\ pc' = "done"

\* lines 76-79
GetEmergencyContacts ==
    /\ pc = "contacts"
    /\ \E outcome \in {"raises", "no rows", "rows"} :
          IF outcome = "raises"
              THEN Fail500("contacts") /\ UNCHANGED locals
          ELSE /\ locals' = [ locals EXCEPT !.emergency_contacts =
                                IF outcome = "rows" THEN <<CONTACT>> ELSE <<>> ]
               /\ pc' = "head"
               /\ UNCHANGED response
    /\ UNCHANGED <<kb_file, env, record_status, posts, served>>
    /\ UNCHANGED <<detector_vars, plan_vars, spotify_vars>>

\* lines 82-87
VerifyAudio ==
    /\ pc = "head"
    /\ \E raises \in BOOLEAN, status_code \in {200, 404} :
          IF raises THEN Fail500("head")
          ELSE IF status_code # 200
              THEN /\ response' = Some(HTTPException(404, "Audio file not found"))
                   /\ pc' = "done"
          ELSE pc' = "insert" /\ UNCHANGED response
    /\ UNCHANGED <<kb_file, env, locals, record_status, posts, served>>
    /\ UNCHANGED <<detector_vars, plan_vars, spotify_vars>>

\* lines 90-100
CreateRecord ==
    /\ pc = "insert"
    /\ \E outcome \in {"raises", "inserted"} :
          IF outcome = "raises"
              THEN Fail500("insert") /\ UNCHANGED record_status
          ELSE /\ record_status' = "processing"
               /\ pc' = "transcribe"
               /\ UNCHANGED response
    /\ UNCHANGED <<kb_file, env, locals, posts, served>>
    /\ UNCHANGED <<detector_vars, plan_vars, spotify_vars>>

\* lines 102-114 with the status check of lines 111-112 moved below line 114
Transcribe_late_check ==
    /\ pc = "transcribe"
    /\ \E outcome \in {"raises", "error", "completed"} :
          IF outcome = "raises" THEN Fail500("transcribe") /\ UNCHANGED locals
          ELSE IF outcome = "error"
              THEN /\ Fail500("Transcription failed")
                   /\ locals' = [ locals EXCEPT !.transcript_text = NO_SPEECH ]
          ELSE \E spoken \in Spoken, segments \in 0..MaxSegments :
               \E pos \in 0..segments : \E neg \in 0..(segments - pos) :
                  /\ locals' = [ locals EXCEPT !.transcript =
                        [ text |-> spoken, pos |-> pos, neg |-> neg,
                          segments |-> segments ] ]
                  /\ pc' = "score"
                  /\ UNCHANGED response
    /\ UNCHANGED <<kb_file, env, record_status, posts, served>>
    /\ UNCHANGED <<detector_vars, plan_vars, spotify_vars>>

\* lines 102-112: the provider's transcript object, with its text and the
\* numbers of POSITIVE / NEGATIVE segments among its sentiment segments
Transcribe ==
    /\ pc = "transcribe"
    /\ \E outcome \in {"raises", "error", "completed"} :
          IF outcome = "raises" THEN Fail500("transcribe") /\ UNCHANGED locals
          ELSE IF outcome = "error"
              THEN Fail500("Transcription failed") /\ UNCHANGED locals
          ELSE \E spoken \in Spoken, segments \in 0..MaxSegments :
               \E pos \in 0..segments : \E neg \in 0..(segments - pos) :
                  /\ locals' = [ locals EXCEPT !.transcript =
                        [ text |-> spoken, pos |-> pos, neg |-> neg,
                          segments |-> segments ] ]
                  /\ pc' = "score"
                  /\ UNCHANGED response
    /\ UNCHANGED <<kb_file, env, record_status, posts, served>>
    /\ UNCHANGED <<detector_vars, plan_vars, spotify_vars>>

\* lines 114-135; the transcript object is not read after line 118 and is
\* dropped from the locals
Score ==
    /\ pc = "score"
    /\ LET transcript_text == IF locals.transcript.text = "" THEN NO_SPEECH
                              ELSE locals.transcript.text
       IN  locals' = [ locals EXCEPT
              !.transcript = NoTranscript,
              !.transcript_text = transcript_text,
              !.mood_numeric = MoodNumeric(locals.transcript.pos, locals.transcript.neg,
                                           locals.transcript.segments),
              !.anxiety_score = scores_of[transcript_text].anxiety_score,
              !.crisis_flag = scores_of[transcript_text].crisis_flag ]
    /\ pc' = "plan"
    /\ UNCHANGED <<kb_file, env, record_status, posts, response, served>>
    /\ UNCHANGED <<detector_vars, plan_vars, spotify_vars>>

\* lines 144-149: rag_agent.generate_plan goes through RAGAgentProxy, which
\* builds the agent on first use (get_rag_agent, rag_agent.py lines 262-269)
GeneratePlan ==
    /\ pc = "plan"
    /\ IF _rag_agent_instance = "None" /\ kb_file.state # "ok"
           THEN /\ Fail500(IF kb_file.state = "missing" THEN "FileNotFoundError"
                           ELSE "JSONDecodeError")
                /\ UNCHANGED <<locals, _rag_agent_instance, activities>>
       ELSE LET acts == IF _rag_agent_instance = "None" THEN kb_file.activities
                        ELSE activities
            IN  /\ _rag_agent_instance' = "agent"
                /\ activities' = acts
                /\ \E outcome \in
                      { generate_plan(model_attr, locals.mood_numeric,
                                      locals.anxiety_score, locals.crisis_flag,
                                      retrieve_relevant_activities(acts, order, 8), reply) :
                          order \in UNION { ArgSorts(similarities) :
                                              similarities \in [1..Len(acts) -> SimLevels] },
                          reply \in (IF model_attr = "client" THEN LLMReplies
                                     ELSE {NoReply}) } :
                          IF outcome.kind = "raised"
                              THEN Fail500(outcome.error) /\ UNCHANGED locals
                          ELSE /\ locals' = [ locals EXCEPT !.wellness_plan = outcome.plan ]
                               /\ pc' = "spotify"
                               /\ UNCHANGED response
    /\ UNCHANGED <<model_attr, plan_call>>
    /\ UNCHANGED <<kb_file, env, record_status, posts, served>>
    /\ UNCHANGED <<detector_vars, spotify_vars>>

\* lines 153-160
GetPlaylist ==
    /\ pc = "spotify"
    /\ \E auth \in AuthOutcomes, search \in ApiOutcomes :
          LET got == get_access_token(access_token, spotify_credentials, auth)
              playlist_url == get_playlist(TokenArg(got.token), search, locals.mood_numeric)
          IN  /\ access_token' = got.access_token
              /\ locals' = IF playlist_url # None
                               THEN [ locals EXCEPT !.wellness_plan =
                                        WithPlaylist(locals.wellness_plan, Val(playlist_url)) ]
                           ELSE locals
    /\ pc' = "update"
    /\ UNCHANGED <<kb_file, env, record_status, posts, response, served>>
    /\ UNCHANGED <<detector_vars, plan_vars, spotify_credentials, spotify_call, token_vars>>

\* lines 163-171
UpdateRecord ==
    /\ pc = "update"
    /\ \E outcome \in {"raises", "updated"} :
          IF outcome = "raises"
              THEN Fail500("update") /\ UNCHANGED record_status
          ELSE /\ record_status' = "completed"
               /\ pc' = "crisis_webhook"
               /\ UNCHANGED response
    /\ UNCHANGED <<kb_file, env, locals, posts, served>>
    /\ UNCHANGED <<detector_vars, plan_vars, spotify_vars>>

\* lines 174-188 without the try / except around requests.post
SendCrisisWebhook_uncaught ==
    /\ pc = "crisis_webhook"
    /\ IF locals.crisis_flag /\ env.N8N_CRISIS_WEBHOOK_URL # None
           THEN \E delivered \in BOOLEAN :
                   /\ posts' = Append(posts, Post(Val(env.N8N_CRISIS_WEBHOOK_URL),
                                                  CrisisPayload(locals), delivered))
                   /\ IF delivered THEN pc' = "wellness_webhook" /\ UNCHANGED response
                      ELSE Fail500("post")
       ELSE UNCHANGED <<posts, response>> /\ pc' = "wellness_webhook"
    /\ UNCHANGED <<kb_file, env, locals, record_status, served>>
    /\ UNCHANGED <<detector_vars, plan_vars, spotify_vars>>

\* lines 174-188
SendCrisisWebhook ==
    /\ pc = "crisis_webhook"
    /\ IF locals.crisis_flag /\ env.N8N_CRISIS_WEBHOOK_URL # None
           THEN \E delivered \in BOOLEAN :
                   posts' = Append(posts, Post(Val(env.N8N_CRISIS_WEBHOOK_URL),
                                               CrisisPayload(locals), delivered))
       ELSE UNCHANGED posts
    /\ pc' = "wellness_webhook"
    /\ UNCHANGED <<kb_file, env, locals, record_status, response, served>>
    /\ UNCHANGED <<detector_vars, plan_vars, spotify_vars>>

\* lines 190-203
SendWellnessWebhook ==
    /\ pc = "wellness_webhook"
    /\ IF env.N8N_WEBHOOK_URL # None
           THEN \E delivered \in BOOLEAN :
                   posts' = Append(posts, Post(Val(env.N8N_WEBHOOK_URL),
                                               WellnessPayload(locals), delivered))
       ELSE UNCHANGED posts
    /\ pc' = "return"
    /\ UNCHANGED <<kb_file, env, locals, record_status, response, served>>
    /\ UNCHANGED <<detector_vars, plan_vars, spotify_vars>>

\* lines 205-214
Respond ==
    /\ pc = "return"
    /\ response' = Some(Ok(SuccessBody(locals)))
    /\ pc' = "done"
    /\ UNCHANGED <<kb_file, env, locals, record_status, posts, served>>
    /\ UNCHANGED <<detector_vars, plan_vars, spotify_vars>>

\* the next request comes in
NextRequest ==
    /\ pc = "done"
    /\ served < MaxRequests
    /\ served' = served + 1
    /\ pc' = "contacts"
    /\ locals' = NoLocals
    /\ record_status' = "none"
    /\ posts' = <<>>
    /\ response' = None
    /\ UNCHANGED <<kb_file, env>>
    /\ UNCHANGED <<detector_vars, plan_vars, spotify_vars>>

Next ==
    \/ GetEmergencyContacts
    \/ VerifyAudio
    \/ CreateRecord
    \/ Transcribe
    \/ Score
    \/ GeneratePlan
    \/ GetPlaylist
    \/ UpdateRecord
    \/ SendCrisisWebhook
    \/ SendWellnessWebhook
    \/ Respond
    \/ NextRequest
    \/ AttachModel

Spec == Init /\ [][Next]_vars

-----------------------------------------------------------------------------
(* The shared SpotifyService called by a caller *)

SpotifyInit ==
    /\ DetectorIdle
    /\ PlanIdle
    /\ RequestIdle
    /\ spotify_credentials \in BOOLEAN
    /\ access_token = None
    /\ spotify_call = NoSpotifyCall
    /\ TokenIdle

\* the record of a call: its inputs, the token cached before it, what the
\* auth and API requests would answer, and its result
SpotifyCall(fn, mood_score, auth, api, result) ==
    [ fn |-> fn, mood_score |-> mood_score, cached |-> access_token,
      auth |-> auth, api |-> api, result |-> result ]

CallGetAccessToken ==
    /\ \E auth \in AuthOutcomes :
          LET got == get_access_token(access_token, spotify_credentials, auth)
          IN  /\ access_token' = got.access_token
              /\ spotify_call' = SpotifyCall("get_access_token", 0, auth, "none", got.token)
    /\ UNCHANGED <<spotify_credentials, token_vars>>
    /\ UNCHANGED <<detector_vars, plan_vars, request_vars>>

CallGetPlaylist ==
    /\ \E auth \in AuthOutcomes, api \in ApiOutcomes, mood_score \in MoodScores :
          LET got == get_access_token(access_token, spotify_credentials, auth)
          IN  /\ access_token' = got.access_token
              /\ spotify_call' =
                    SpotifyCall("get_playlist", mood_score, auth, api,
                                get_playlist(TokenArg(got.token), api, mood_score))
    /\ UNCHANGED <<spotify_credentials, token_vars>>
    /\ UNCHANGED <<detector_vars, plan_vars, request_vars>>

CallGetRecommendations ==
    /\ \E auth \in AuthOutcomes, api \in ApiOutcomes, mood_score \in MoodScores :
          LET got == get_access_token(access_token, spotify_credentials, auth)
          IN  /\ access_token' = got.access_token
              /\ spotify_call' =
                    SpotifyCall("get_recommendations", mood_score, auth, api,
                                get_recommendations(TokenArg(got.token), api, mood_score))
    /\ UNCHANGED <<spotify_credentials, token_vars>>
    /\ UNCHANGED <<detector_vars, plan_vars, request_vars>>

SpotifyNext ==
    \/ CallGetAccessToken
    \/ CallGetPlaylist
    \/ CallGetRecommendations

SpecSpotify == SpotifyInit /\ [][SpotifyNext]_vars

-----------------------------------------------------------------------------
(* Concurrent calls of spotify_service.get_access_token: one step per read
   or write of shared state *)

TokenInit ==
    /\ DetectorIdle
    /\ PlanIdle
    /\ RequestIdle
    /\ spotify_credentials \in BOOLEAN
    /\ access_token = None
    /\ spotify_call = NoSpotifyCall
    /\ TokenIdle

\* number of calls the first n threads have made
RECURSIVE CallsOfFirst(_)
CallsOfFirst(n) ==
    IF n = 0 THEN 0 ELSE token_threads[n].calls + CallsOfFirst(n - 1)

TokenFrame ==
    /\ UNCHANGED <<spotify_credentials, access_token, spotify_call>>
    /\ UNCHANGED <<detector_vars, plan_vars, request_vars>>

\* SpotifyServiceProxy.__getattr__ -> get_spotify_service, line 178: the
\* test of the global
GetSpotifyService(t) ==
    /\ token_threads[t].pc = "idle"
    /\ CallsOfFirst(MaxThreads) < MaxCalls
    /\ token_threads' =
          [ token_threads EXCEPT
              ![t] = [ IdleThread EXCEPT
                         !.pc = IF _spotify_service_instance = None
                                    THEN "construct" ELSE "return_service",
                         !.calls = token_threads[t].calls + 1 ] ]
    /\ UNCHANGED <<_spotify_service_instance, services>>
    /\ TokenFrame

\* line 179: a new SpotifyService (access_token None) is stored in the global
ConstructService(t) ==
    /\ token_threads[t].pc = "construct"
    /\ _spotify_service_instance' = Some(t)
    /\ services' = [ services EXCEPT ![t] = None ]
    /\ token_threads' = [ token_threads EXCEPT ![t].pc = "return_service" ]
    /\ TokenFrame

\* line 181: the global is read again and returned
ReturnService(t) ==
    /\ token_threads[t].pc = "return_service"
    /\ token_threads' =
          [ token_threads EXCEPT ![t].pc = "check",
                                 ![t].service = Val(_spotify_service_instance) ]
    /\ UNCHANGED <<_spotify_service_instance, services>>
    /\ TokenFrame

\* lines 14 and 18-20: the test of self.access_token, then of the credentials
CheckCached(t) ==
    /\ token_threads[t].pc = "check"
    /\ token_threads' =
          IF services[token_threads[t].service] # None
              THEN [ token_threads EXCEPT ![t].pc = "return_cached" ]
          ELSE IF ~spotify_credentials
              THEN [ token_threads EXCEPT ![t].pc = "idle", ![t].result = None ]
          ELSE [ token_threads EXCEPT ![t].pc = "post" ]
    /\ UNCHANGED <<_spotify_service_instance, services>>
    /\ TokenFrame

\* line 16: self.access_token is read again and returned
ReturnCached(t) ==
    /\ token_threads[t].pc = "return_cached"
    /\ token_threads' =
          [ token_threads EXCEPT ![t].pc = "idle",
                                 ![t].result = services[token_threads[t].service] ]
    /\ UNCHANGED <<_spotify_service_instance, services>>
    /\ TokenFrame

\* PostAuth with a failed attempt wiping the cached token
PostAuth_wipes(t) ==
    /\ token_threads[t].pc = "post"
    /\ \E auth_response \in AuthResponses :
          IF ~auth_response.raised /\ auth_response.status_code = 200
              THEN /\ token_threads' =
                         [ token_threads EXCEPT ![t].pc = "store",
                                                ![t].response = auth_response,
                                                ![t].requests = @ + 1 ]
                   /\ UNCHANGED services
          ELSE /\ token_threads' =
                     [ token_threads EXCEPT ![t].pc = "idle",
                                            ![t].response = auth_response,
                                            ![t].requests = @ + 1,
                                            ![t].result = None ]
               /\ services' = [ services EXCEPT ![token_threads[t].service] = None ]
    /\ UNCHANGED _spotify_service_instance
    /\ TokenFrame

\* lines 26-34 and 37-42: the auth request; status 200 goes on to line 35,
\* any other status and any exception return None
PostAuth(t) ==
    /\ token_threads[t].pc = "post"
    /\ \E auth_response \in AuthResponses :
          token_threads' =
            IF ~auth_response.raised /\ auth_response.status_code = 200
                THEN [ token_threads EXCEPT ![t].pc = "store",
                                            ![t].response = auth_response,
                                            ![t].requests = @ + 1 ]
            ELSE [ token_threads EXCEPT ![t].pc = "idle",
                                        ![t].response = auth_response,
                                        ![t].requests = @ + 1,
                                        ![t].result = None ]
    /\ UNCHANGED <<_spotify_service_instance, services>>
    /\ TokenFrame

\* line 35: self.access_token = response.json()["access_token"]
StoreToken(t) ==
    /\ token_threads[t].pc = "store"
    /\ services' = [ services EXCEPT ![token_threads[t].service] =
                                        Some(token_threads[t].response.access_token) ]
    /\ token_threads' = [ token_threads EXCEPT ![t].pc = "return_stored" ]
    /\ UNCHANGED _spotify_service_instance
    /\ TokenFrame

\* line 36: self.access_token is read again and returned
ReturnStored(t) ==
    /\ token_threads[t].pc = "return_stored"
    /\ token_threads' =
          [ token_threads EXCEPT ![t].pc = "idle",
                                 ![t].result = services[token_threads[t].service] ]
    /\ UNCHANGED <<_spotify_service_instance, services>>
    /\ TokenFrame

TokenNext ==
    \E t \in Threads :
        \/ GetSpotifyService(t)
        \/ ConstructService(t)
        \/ ReturnService(t)
        \/ CheckCached(t)
        \/ ReturnCached(t)
        \/ PostAuth(t)
        \/ StoreToken(t)
        \/ ReturnStored(t)

SpecToken == TokenInit /\ [][TokenNext]_vars

-----------------------------------------------------------------------------
(* Vocabulary of the claims about the detector *)

\* number of distinct entries of a keyword list occurring in a lower-cased text
CountIn(keywords, text_lower) ==
    Cardinality({ i \in 1..Len(keywords) : Contains(text_lower, keywords[i]) })

lower_of == [ t \in Texts |-> Lower(t) ]

keyword_counts ==
    [ t \in Texts |->
        [ s    |-> CountIn(severe_keywords, lower_of[t]),
          h    |-> CountIn(high_risk_keywords, lower_of[t]),
          m    |-> CountIn(moderate_risk_keywords, lower_of[t]),
          p    |-> CountIn(protective_phrases, lower_of[t]),
          anx  |-> CountIn(anxiety_keywords, lower_of[t]),
          mods |-> CountIn(intensity_modifiers, lower_of[t]),
          dep  |-> CountIn(depression_keywords, lower_of[t]) ] ]

Clamp01(x) == IF x < 0 THEN 0 ELSE IF x > 100 THEN 100 ELSE x

SeverityRank == [ none |-> 0, low |-> 1, moderate |-> 2, high |-> 3, severe |-> 4 ]

\* highest keyword tier a text matches below severe: 2 high-risk, 1 moderate-risk, 0 neither
TopTier(c) == IF c.h > 0 THEN 2 ELSE IF c.m > 0 THEN 1 ELSE 0

\* what detect_crisis gives every input text without a severe keyword
crisis_profile ==
    { [ tier     |-> TopTier(keyword_counts[u]),
        risk     |-> crisis_of[u].risk_score,
        severity |-> crisis_of[u].severity ] : u \in { v \in Texts : keyword_counts[v].s = 0 } }

\* what detect_anxiety and detect_depression give every input text
anxiety_profile ==
    { [ anx |-> keyword_counts[u].anx, mods |-> keyword_counts[u].mods,
        score |-> anxiety_of[u] ] : u \in Texts }

depression_profile ==
    { [ dep |-> keyword_counts[u].dep, score |-> depression_of[u] ] : u \in Texts }

CrisisCalled == crisis_result # None
Crisis == Val(crisis_result)
Counts == keyword_counts[text]

-----------------------------------------------------------------------------
(* Claims about the detector, under SpecDetector *)

\* C1: a text matching at least one severe keyword gets severity 'severe',
\* crisis_detected true and an action containing 'IMMEDIATE', whatever else
\* (protective, high-risk, moderate-risk) it matches.
C1_SevereDominates ==
    (CrisisCalled /\ Counts.s >= 1) =>
        /\ Crisis.severity = "severe"
        /\ Crisis.crisis_detected = TRUE
        /\ Contains(Crisis.recommended_action, "IMMEDIATE")

\* a severe keyword together with a high-risk keyword and a protective phrase
C1_Witness ==
    /\ CrisisCalled /\ Counts.s >= 1 /\ Counts.h >= 1 /\ Counts.p >= 1
    /\ Crisis.severity = "severe"

\* C6 (as claimed): among texts without a severe keyword, a risk_score that
\* is no larger never comes with a larger severity.
C6_MonotoneAsClaimed ==
    (CrisisCalled /\ Counts.s = 0) =>
        \A e \in crisis_profile :
            (Crisis.risk_score <= e.risk) =>
                SeverityRank[Crisis.severity] <= SeverityRank[e.severity]

\* C6 (amended): among texts without a severe keyword whose highest matched
\* tier (high-risk, moderate-risk, none) is the same, a risk_score that is no
\* larger never comes with a larger severity.
C6_MonotoneWithinTier ==
    (CrisisCalled /\ Counts.s = 0) =>
        \A e \in crisis_profile :
            (e.tier = TopTier(Counts) /\ Crisis.risk_score <= e.risk) =>
                SeverityRank[Crisis.severity] <= SeverityRank[e.severity]

\* a moderate-tier text scored 'moderate' while another moderate-tier text of
\* higher risk_score is scored 'high'
C6_Witness ==
    /\ CrisisCalled /\ Counts.s = 0 /\ TopTier(Counts) = 1
    /\ Crisis.severity = "moderate"
    /\ \E e \in crisis_profile :
          e.tier = 1 /\ e.risk > Crisis.risk_score /\ e.severity = "high"

\* C7: risk_score is 0.4 s + 0.25 h + 0.1 m - 0.15 p clamped to [0, 1], with
\* s, h, m, p the numbers of distinct list entries occurring in the text, so
\* it lies in [0, 1] and the text repeated gives the same score.
C7_RiskFormula ==
    CrisisCalled =>
        /\ Crisis.risk_score =
              Clamp01(40 * Counts.s + 25 * Counts.h + 10 * Counts.m - 15 * Counts.p)
        /\ Crisis.risk_score \in 0..100
        /\ (text \o " " \o text) \in Texts =>
              crisis_of[text \o " " \o text].risk_score = Crisis.risk_score

\* the cap is hit: three severe keywords, raw sum 1.2
C7_Witness ==
    /\ CrisisCalled /\ Counts.s = 3 /\ Crisis.risk_score = 100

\* C8: crisis_detected is true exactly for severity moderate, high, severe,
\* and the module-level detect_crisis returns that boolean.
C8_CrisisDetectedIffSeverity ==
    /\ CrisisCalled =>
          (Crisis.crisis_detected <=> Crisis.severity \in {"moderate", "high", "severe"})
    /\ (CrisisCalled /\ crisis_bool # None) =>
          Val(crisis_bool) = Crisis.crisis_detected

\* both functions called on a text scored 'moderate'
C8_Witness ==
    /\ CrisisCalled /\ crisis_bool # None
    /\ Crisis.severity = "moderate" /\ Val(crisis_bool) = TRUE

\* C9: no severe, high-risk or moderate-risk keyword gives severity 'none'
\* with risk_score 0; at least one gives moderate, high or severe; 'low' is
\* never returned.
C9_NoneOrAtLeastModerate ==
    CrisisCalled =>
        /\ (Counts.s + Counts.h + Counts.m = 0) =>
              (Crisis.severity = "none" /\ Crisis.risk_score = 0)
        /\ (Counts.s + Counts.h + Counts.m > 0) =>
              Crisis.severity \in {"moderate", "high", "severe"}
        /\ Crisis.severity # "low"

\* only a protective phrase matches: the raw sum is negative
C9_Witness ==
    /\ CrisisCalled /\ Counts.s + Counts.h + Counts.m = 0 /\ Counts.p >= 1
    /\ Crisis.severity = "none"

AnxietyMonotoneBounded ==
    anxiety_result # None =>
        /\ Val(anxiety_result) <= 100
        /\ \A e \in anxiety_profile :
              (e.mods = Counts.mods /\ Counts.anx <= e.anx) =>
                  Val(anxiety_result) <= e.score

DepressionMonotoneBounded ==
    depression_result # None =>
        /\ Val(depression_result) <= 100
        /\ \A e \in depression_profile :
              (Counts.dep <= e.dep) => Val(depression_result) <= e.score

\* C10 (as claimed): both scores are monotone in the number of indicator
\* keywords matched, at most 1.0, and 1.0 for a text matching every keyword
\* of the respective list.
C10_SaturationAsClaimed ==
    /\ AnxietyMonotoneBounded
    /\ DepressionMonotoneBounded
    /\ (anxiety_result # None /\ Counts.anx = Len(anxiety_keywords)) =>
          Val(anxiety_result) = 100
    /\ (depression_result # None /\ Counts.dep = Len(depression_keywords)) =>
          Val(depression_result) = 100

\* C10 (amended): both scores are monotone and at most 1.0; detect_depression
\* is 1.0 for a text matching every depression keyword; detect_anxiety for a
\* text matching every anxiety keyword is 0.8 plus 0.1 per intensity modifier
\* (at most 0.2), so 1.0 only with two or more modifiers.
C10_Saturation ==
    /\ AnxietyMonotoneBounded
    /\ DepressionMonotoneBounded
    /\ (anxiety_result # None /\ Counts.anx = Len(anxiety_keywords)) =>
          Val(anxiety_result) = 80 + Min(10 * Counts.mods, 20)
    /\ (depression_result # None /\ Counts.dep = Len(depression_keywords)) =>
          Val(depression_result) = 100

\* every anxiety keyword and no intensity modifier: the score stops at 0.8
C10_Witness ==
    /\ anxiety_result # None /\ Counts.anx = Len(anxiety_keywords) /\ Counts.mods = 0
    /\ Val(anxiety_result) = 80

-----------------------------------------------------------------------------
(* Claims about the request handler and the plan composer *)

\* the call a caller made on the agent
Call == plan_call
GeneratePlanCalled == plan_call.fn = "generate_plan"

\* the plan _get_fallback_plan gives for the arguments of the call
FallbackOfCall ==
    _get_fallback_plan(plan_call.mood_score, plan_call.anxiety_score,
                       plan_call.crisis_flag, plan_call.relevant_activities)

\* the model call raised, or its response is not parseable JSON, or the
\* parsed value has no list-typed immediate_actions or activities
LLMFails(reply) ==
    \/ reply.kind = "raises"
    \/ /\ reply.kind = "text"
       /\ LET response_text == CleanResponse(reply.text)
          IN  \/ response_text \notin DOMAIN json_documents
              \/ json_documents[response_text].immediate_actions.type # "list"
              \/ json_documents[response_text].activities.type # "list"

llm_fails_of == [ reply \in LLMReplies |-> LLMFails(reply) ]

\* C2 (as claimed): whenever a request has ended whose transcript was scored
\* as a crisis while a crisis webhook URL is configured, a POST to that URL
\* carrying the user's emergency contacts was attempted in that request.
C2_CrisisWebhookAttempted ==
    (pc = "done" /\ locals.crisis_flag /\ env.N8N_CRISIS_WEBHOOK_URL # None)
        => \E i \in 1..Len(posts) :
              /\ posts[i].url = Val(env.N8N_CRISIS_WEBHOOK_URL)
              /\ posts[i].json = CrisisPayload(locals)

\* C3: when a model client is configured and the model call fails (it raises,
\* answers with unparseable text, or with a value lacking a list-typed
\* immediate_actions or activities), generate_plan raises nothing and returns
\* exactly the plan of _get_fallback_plan for the same scores, crisis flag
\* and retrieved activities.
C3_LLMFailureFallsBack ==
    (GeneratePlanCalled /\ model_attr = "client" /\ llm_fails_of[Call.reply])
        => Call.outcome = Returned(FallbackOfCall)

\* C3 witness: a client is configured, the model answered inside a markdown
\* fence with a dict whose activities is null, and the call returned.
C3_Witness ==
    /\ GeneratePlanCalled
    /\ model_attr = "client"
    /\ Call.reply.kind = "text"
    /\ StartsWith(Call.reply.text, FENCE_JSON)
    /\ CleanResponse(Call.reply.text) \in DOMAIN json_documents
    /\ json_documents[CleanResponse(Call.reply.text)].activities = JNull
    /\ Call.crisis_flag
    /\ Call.outcome.kind = "returned"

\* C4 (as claimed): on an agent with no model client configured,
\* generate_plan returns the plan of _get_fallback_plan and does not raise.
C4_FallbackWithoutClient ==
    (GeneratePlanCalled /\ model_attr # "client")
        => Call.outcome = Returned(FallbackOfCall)

\* C5 (as claimed): every plan generate_plan returns has exactly 3
\* immediate_actions and between 1 and 4 activities.
C5_PlanShape ==
    (GeneratePlanCalled /\ Call.outcome.kind = "returned")
        => /\ Len(Call.outcome.plan.immediate_actions.items) = 3
           /\ Len(Call.outcome.plan.activities.items) \in 1..4

-----------------------------------------------------------------------------
(* Claims about retrieval *)

RetrieveCalled == plan_call.fn = "retrieve_relevant_activities"

\* C11 (as claimed): the activities retrieve_relevant_activities returns are
\* in descending order of similarity, and activities of equal similarity come
\* in the order of their index in the flattened knowledge base, lower index
\* first.
C11_RankedTiesByIndex ==
    RetrieveCalled =>
        \A i, j \in 1..Len(plan_call.top_indices) :
            i < j =>
                LET a == plan_call.top_indices[i]
                    b == plan_call.top_indices[j]
                IN  \/ plan_call.similarities[a] > plan_call.similarities[b]
                    \/ /\ plan_call.similarities[a] = plan_call.similarities[b]
                       /\ a < b

-----------------------------------------------------------------------------
(* Claims about the SpotifyService *)

\* credentials are absent, the token request fails, or the API request
\* fails or returns nothing usable
SpotifyUnavailable ==
    \/ spotify_call.cached = None /\ ~spotify_credentials
    \/ spotify_call.cached = None /\ spotify_call.auth \notin Tokens
    \/ spotify_call.api # "found"

\* C12 (as claimed): whenever credentials are absent, the token request
\* fails, or the API request fails or returns nothing usable, get_playlist
\* returns the static fallback playlist URL for the mood (never None) and
\* get_recommendations returns the three static mock tracks (never an empty
\* list).
C12_StaticFallback ==
    /\ (spotify_call.fn = "get_playlist" /\ SpotifyUnavailable)
          => spotify_call.result = Some(_get_fallback_playlist(spotify_call.mood_score))
    /\ (spotify_call.fn = "get_recommendations" /\ SpotifyUnavailable)
          => spotify_call.result = FALLBACK_TRACKS

-----------------------------------------------------------------------------
(* Claims about the request handler: errors *)

\* C13 (as claimed): while the knowledge base file is missing or malformed,
\* no request gets as far as creating its record or transcribing the audio.
C13_NoRequestWithoutKnowledgeBase ==
    kb_file.state # "ok" =>
        /\ record_status = "none"
        /\ pc \notin {"transcribe", "score", "plan"}

\* the URLs get_playlist can return
PlaylistUrls == {FOUND_PLAYLIST, FALLBACK_CALMING, FALLBACK_UPBEAT}

\* C14: the playlist lookup, the crisis webhook POST and the wellness webhook
\* POST never abort the request, whether they succeed or fail: the lookup
\* step goes on to the database update with the transcript, scores and
\* crisis flag untouched and the plan unchanged but for a playlist URL; each
\* webhook step goes on to the next step with the locals untouched; and the
\* last step answers with the success object built from those locals.
C14_SideEffectsNeverAbort ==
    [][ /\ (pc = "spotify" /\ pc' # pc) =>
              /\ pc' = "update"
              /\ response' = None
              /\ \/ locals' = locals
                 \/ \E url \in PlaylistUrls :
                       locals' = [ locals EXCEPT !.wellness_plan =
                                     WithPlaylist(locals.wellness_plan, url) ]
        /\ (pc = "crisis_webhook" /\ pc' # pc) =>
              pc' = "wellness_webhook" /\ response' = None /\ locals' = locals
        /\ (pc = "wellness_webhook" /\ pc' # pc) =>
              pc' = "return" /\ response' = None /\ locals' = locals
        /\ (pc = "return" /\ pc' # pc) =>
              /\ pc' = "done"
              /\ locals' = locals
              /\ response' = Some(Ok(SuccessBody(locals)))
      ]_vars

\* C14 witness: a request answered with the success object although the
\* playlist lookup gave nothing and both webhook POSTs raised.
C14_Witness ==
    /\ pc = "done"
    /\ response = Some(Ok(SuccessBody(locals)))
    /\ locals.crisis_flag
    /\ locals.wellness_plan.music_recommendation.spotify_playlist_url = ""
    /\ Len(posts) = 2
    /\ ~posts[1].delivered /\ posts[1].url = CRISIS_WEBHOOK_URL
    /\ ~posts[2].delivered /\ posts[2].url = WELLNESS_WEBHOOK_URL

\* C15: when the transcription provider reports error status, the request
\* ends with HTTP 500 and nothing downstream has happened: no transcript
\* text, scores or plan were computed, the record was not updated to
\* 'completed', and no webhook was posted.
C15_TranscriptionErrorStops ==
    response = Some(HTTPException(500, "Transcription failed")) =>
        /\ pc = "done"
        /\ locals = [ NoLocals EXCEPT !.emergency_contacts = locals.emergency_contacts ]
        /\ record_status = "processing"
        /\ posts = <<>>

\* C15 witness: the second request ended on a transcription error, with a
\* crisis webhook configured and contacts on file.
C15_Witness ==
    /\ response = Some(HTTPException(500, "Transcription failed"))
    /\ served = 2
    /\ env.N8N_CRISIS_WEBHOOK_URL # None
    /\ locals.emergency_contacts = <<CONTACT>>

-----------------------------------------------------------------------------
(* Claims about the fallback plan *)

FallbackCalled == plan_call.fn = "_get_fallback_plan"
FallbackPlan == plan_call.outcome.plan

\* C16: _get_fallback_plan takes immediate_actions from four bands, each a
\* fixed list of 3 strings: the crisis script when crisis_flag is true or
\* mood_score < 0.2, else the second script when mood_score < 0.4, else the
\* third when mood_score < 0.6, else the positive script; the four scripts
\* differ, so exactly one band applies.
C16_FourBands ==
    FallbackCalled =>
        LET m == plan_call.mood_score
            c == plan_call.crisis_flag
            got == FallbackPlan.immediate_actions
            scripts == {CRISIS_ACTIONS, LOW_MOOD_ACTIONS, MID_MOOD_ACTIONS, POSITIVE_ACTIONS}
        IN  /\ got.type = "list"
            /\ Len(got.items) = 3
            /\ Cardinality(scripts) = 4
            /\ \A script \in scripts : Len(script) = 3
            /\ (c \/ m < 200) => got.items = CRISIS_ACTIONS
            /\ (~c /\ 200 <= m /\ m < 400) => got.items = LOW_MOOD_ACTIONS
            /\ (~c /\ 400 <= m /\ m < 600) => got.items = MID_MOOD_ACTIONS
            /\ (~c /\ 600 <= m) => got.items = POSITIVE_ACTIONS

\* C16 witness: crisis_flag true with a mood of 0.6 gives the crisis script.
C16_Witness ==
    /\ FallbackCalled
    /\ plan_call.crisis_flag
    /\ plan_call.mood_score = 600
    /\ FallbackPlan.immediate_actions.items = CRISIS_ACTIONS

\* the string the claim describes for one activity: the description if it
\* is non-empty, else the first two steps joined, else the bare name, each
\* after the name and suffixed with the duration
DescribedRendering(act) ==
    LET name  == IF act.name = None THEN "Activity" ELSE act.name[1]
        desc  == IF act.description = None THEN "" ELSE act.description[1]
        steps == IF act.steps = None THEN <<>> ELSE act.steps[1]
        mins  == IF act.duration_minutes = None THEN 5 ELSE act.duration_minutes[1]
        first_two == IF Len(steps) >= 2 THEN steps[1] \o ", " \o steps[2] ELSE steps[1]
        detail == IF desc # "" THEN ": " \o desc
                  ELSE IF steps # <<>> THEN ": " \o first_two
                  ELSE ""
    IN  name \o detail \o " (" \o ToString(mins) \o " minutes)"

\* C17: _get_fallback_plan renders the first min(4, n) of the n activities it
\* is given, in their order, one string each as described; with n = 0 the
\* activities are the fixed 4-item generic list, which is used in no other case.
C17_RendersFirstFour ==
    FallbackCalled =>
        LET given == plan_call.relevant_activities
            got == FallbackPlan.activities.items
        IN  /\ Len(GENERIC_ACTIVITIES) = 4
            /\ Len(given) = 0 => got = GENERIC_ACTIVITIES
            /\ Len(given) > 0 =>
                  /\ Len(got) = Min(4, Len(given))
                  /\ \A i \in 1..Len(got) : got[i] = DescribedRendering(given[i])
                  /\ got # GENERIC_ACTIVITIES

\* C17 witness: six activities given, four rendered; the third has neither
\* description nor steps nor duration.
C17_Witness ==
    /\ FallbackCalled
    /\ Len(plan_call.relevant_activities) = 6
    /\ Len(FallbackPlan.activities.items) = 4
    /\ FallbackPlan.activities.items[2] = "Walk 2: Put on shoes, Go outside (10 minutes)"
    /\ FallbackPlan.activities.items[3] = "Journaling 3 (5 minutes)"

\* C18: in _get_fallback_plan the music description is the calming one
\* whenever anxiety_score > 0.6, whatever mood_score and crisis_flag are;
\* otherwise the uplifting one when mood_score < 0.4, and the default one in
\* the remaining cases; needed is always true.
C18_MusicBands ==
    FallbackCalled =>
        LET music == FallbackPlan.music_recommendation
        IN  /\ music.type = "dict"
            /\ music.needed = TRUE
            /\ Cardinality({MUSIC_CALMING, MUSIC_UPLIFTING, MUSIC_DEFAULT}) = 3
            /\ plan_call.anxiety_score > 60 => music.description = MUSIC_CALMING
            /\ (plan_call.anxiety_score <= 60 /\ plan_call.mood_score < 400)
                  => music.description = MUSIC_UPLIFTING
            /\ (plan_call.anxiety_score <= 60 /\ plan_call.mood_score >= 400)
                  => music.description = MUSIC_DEFAULT

\* C18 witness: anxiety 0.75 with a mood of 0.1 gives the calming description.
C18_Witness ==
    /\ FallbackCalled
    /\ plan_call.anxiety_score = 75
    /\ plan_call.mood_score = 100
    /\ FallbackPlan.music_recommendation.description = MUSIC_CALMING

-----------------------------------------------------------------------------
(* Claims about the mood value *)

\* C19: the step of transcribe_audio that computes the mood from p positive
\* and n negative segments among t sentiment segments gives 0.6 + (p/t)*0.3
\* when p > n, 0.4 - (n/t)*0.3 when n > p, and 0.5 when p = n or t = 0; the
\* value lies in [0.1, 0.9], is above 0.6 exactly when p > n and below 0.4
\* exactly when n > p.  (Mood in thousandths; the equations are multiplied
\* by t.)
C19_MoodFormula ==
    [][ (pc = "score" /\ pc' = "plan") =>
            LET p == locals.transcript.pos
                n == locals.transcript.neg
                t == locals.transcript.segments
                m == locals'.mood_numeric
            IN  /\ (t > 0 /\ p > n) => (m - 600) * t = 300 * p
                /\ (t > 0 /\ n > p) => (400 - m) * t = 300 * n
                /\ (p = n \/ t = 0) => m = 500
                /\ 100 <= m /\ m <= 900
                /\ m > 600 <=> p > n
                /\ m < 400 <=> n > p
      ]_vars

\* C19 witness: a mood of 0.7 was computed (one positive segment of three,
\* none negative) and the handler went on to the plan.
C19_Witness ==
    /\ pc = "plan"
    /\ locals.mood_numeric = 700

-----------------------------------------------------------------------------
(* Claims about matched_keywords, under SpecDetector *)

\* the three crisis lists in the order severe, high-risk, moderate-risk
crisis_keywords == severe_keywords \o high_risk_keywords \o moderate_risk_keywords

\* positions of crisis_keywords whose entry occurs in the lower-cased text
crisis_hits ==
    [ t \in Texts |->
        { i \in 1..Len(crisis_keywords) : Contains(lower_of[t], crisis_keywords[i]) } ]

InList(keywords, kw) == \E i \in 1..Len(keywords) : keywords[i] = kw

InCrisisLists(kw) == InList(crisis_keywords, kw)

\* C20: matched_keywords is the matched severe, then matched high-risk, then
\* matched moderate-risk keywords, each group in the order of its source
\* list, cut to the first 5 entries: its j-th entry is the j-th matched
\* position of the three lists laid end to end.  It has at most 5 entries
\* and none of them is a protective phrase or a term found only in the
\* anxiety or only in the depression list.
C20_MatchedKeywords ==
    CrisisCalled =>
        LET mk   == Crisis.matched_keywords
            hits == crisis_hits[text]
        IN  /\ Len(mk) = Min(5, Cardinality(hits))
            /\ \A j \in 1..Len(mk) :
                   \E i \in hits :
                       /\ Cardinality({ k \in hits : k < i }) = j - 1
                       /\ mk[j] = crisis_keywords[i]
            /\ Len(mk) <= 5
            /\ \A j \in 1..Len(mk) :
                   /\ ~InList(protective_phrases, mk[j])
                   /\ InList(anxiety_keywords, mk[j]) => InCrisisLists(mk[j])
                   /\ InList(depression_keywords, mk[j]) => InCrisisLists(mk[j])

\* C20 witness: a text matching one severe, one high-risk and four
\* moderate-risk keywords, in another order than the lists'; the sixth
\* match ('numb') is cut off.
C20_Witness ==
    /\ CrisisCalled
    /\ Counts.s = 1 /\ Counts.h = 1 /\ Counts.m = 4
    /\ Crisis.matched_keywords =
           <<"want to die", "trapped", "burden", "falling apart", "losing control">>

-----------------------------------------------------------------------------
(* Claims about the size of the retrieval, under SpecPlan *)

\* C22 (as claimed): for an index of N activities and every top_k >= 0,
\* retrieve_relevant_activities returns exactly min(top_k, N) activities, at
\* pairwise distinct positions of the index; top_k = 0 returns the empty list.
C22_ReturnsMinTopK ==
    RetrieveCalled =>
        /\ Len(plan_call.relevant_activities) = Min(plan_call.top_k, Len(activities))
        /\ Len(plan_call.top_indices) = Len(plan_call.relevant_activities)
        /\ \A i, j \in 1..Len(plan_call.top_indices) :
               i # j => plan_call.top_indices[i] # plan_call.top_indices[j]
        /\ \A i \in 1..Len(plan_call.top_indices) :
               /\ plan_call.top_indices[i] \in 1..Len(activities)
               /\ plan_call.relevant_activities[i] = activities[plan_call.top_indices[i]]
        /\ plan_call.top_k = 0 => plan_call.relevant_activities = <<>>

-----------------------------------------------------------------------------
(* Claims about the independence of the keyword groups, under SpecDetector *)

\* C23 (as claimed): for every high-risk keyword k, detect_crisis of the text
\* consisting of k alone matches no protective phrase: protective_factors is
\* false, risk_score is 0.25 and severity is 'high'.
C23_HighRiskAloneUnprotected ==
    (CrisisCalled /\ text \in HighRiskAlone) =>
        /\ Counts.p = 0
        /\ Crisis.protective_factors = FALSE
        /\ Crisis.risk_score = 25
        /\ Crisis.severity = "high"

-----------------------------------------------------------------------------
(* Claims about the cached token under concurrent calls, under SpecToken *)

\* the step is taken by thread t
StepOf(t) == token_threads'[t] # token_threads[t]

\* thread t holds a successful (status 200) auth response
HoldsToken(t) ==
    /\ ~token_threads[t].response.raised
    /\ token_threads[t].response.status_code = 200

\* C21: under any interleaving of concurrent get_access_token calls, the
\* access_token slot of a SpotifyService is always empty or a token, and a
\* step changes it only to the token of a status-200 auth response held by
\* a thread calling on that service; it never goes from populated back to
\* empty; an auth attempt that fails leaves every slot unchanged; a call
\* that finds the slot populated issues no auth request and returns the
\* token cached in the slot.
C21_CachedTokenSlot ==
    /\ [](\A s \in Threads : services[s] = None \/ Val(services[s]) \in IssuedTokens)
    /\ [][ /\ \A s \in Threads :
                /\ services[s] # None => services'[s] # None
                /\ services'[s] # services[s] =>
                       \E t \in Threads :
                           /\ StepOf(t)
                           /\ token_threads[t].service = s
                           /\ HoldsToken(t)
                           /\ services'[s] = Some(token_threads[t].response.access_token)
            /\ \A t \in Threads :
                /\ ( /\ StepOf(t)
                     /\ token_threads'[t].requests = token_threads[t].requests + 1
                     /\ \/ token_threads'[t].response.raised
                        \/ token_threads'[t].response.status_code # 200 )
                       => services' = services
                /\ ( /\ StepOf(t)
                     /\ token_threads[t].pc = "check"
                     /\ services[token_threads[t].service] # None )
                       => /\ token_threads'[t].pc = "return_cached"
                          /\ token_threads'[t].requests = 0
                /\ ( /\ StepOf(t)
                     /\ token_threads[t].pc = "return_cached" )
                       => /\ token_threads'[t].pc = "idle"
                          /\ token_threads'[t].requests = 0
                          /\ token_threads'[t].result # None
                          /\ token_threads'[t].result = services[token_threads[t].service]
      ]_vars

\* C21 witness: on one service, a thread returned the cached token without
\* an auth request while another thread's auth attempt, started when the
\* slot was empty, failed and left the populated slot as it was.
C21_Witness ==
    \E t, u \in Threads :
        /\ t # u
        /\ token_threads[t].pc = "idle" /\ token_threads[u].pc = "idle"
        /\ token_threads[t].service = token_threads[u].service
        /\ token_threads[t].calls >= 1 /\ token_threads[u].calls >= 1
        /\ token_threads[t].requests = 0
        /\ token_threads[t].result # None
        /\ token_threads[t].result = services[token_threads[t].service]
        /\ token_threads[u].requests = 1
        /\ token_threads[u].response.status_code = 401
        /\ token_threads[u].result = None

====
